---- MODULE Spec2Model ----
(***************************************************************************)
(* Model of src-tauri/src/sudo.rs: the per-user authentication cache       *)
(* (SudoCache), the credential verifier (verify_password), the privileged  *)
(* command executor (execute_sudo_command) and the request orchestrator    *)
(* (fast_sudo), together with clear_sudo_cache and check_sudo_privileges.  *)
(*                                                                         *)
(* Strings are sequences of words, Option<T> is a sequence of length <= 1  *)
(* (<<>> is None, <<x>> is Some(x)), Instant is a number of seconds.       *)
(* The external tool (sudo) is the environment: what a spawned process     *)
(* does is a nondeterministic choice made when the blocking call returns.  *)
(***************************************************************************)
EXTENDS Integers, Sequences, FiniteSets, TLC

\* ---------------------------------------------------------------- bounds
\* The clock advances in steps of TickStep seconds up to MaxNow seconds.
TickStep == 450
MaxNow == 1350

\* ------------------------------------------------------ program constants
\* libc::getuid() of the process, and another identity for the cache API.
CurrentUid == 1000
OtherUid == 1001
\* let timeout_minutes = 15 in fast_sudo.
TimeoutMinutes == 15
\* Duration::from_secs(timeout_minutes * 60)
SecsPerMinute == 60

\* The fast_sudo requests that can be in flight at the same time.
Reqs == {"r1", "r2"}
Users == {CurrentUid, OtherUid}

\* ------------------------------------------------------------ data model
None == <<>>
Some(x) == <<x>>
Unwrap(o) == o[1]

\* String::contains for a word of the text.
Contains(s, w) == \E i \in DOMAIN s : s[i] = w

\* Passwords are opaque secret values; commands and arguments are drawn
\* from a disjoint universe, so that an occurrence of a password value
\* anywhere is a flow from SudoRequest.password.
Passwords == {"hunter2", "letmein"}
Commands == {"apt"}
ArgLists == {<<"update">>}

\* struct SudoRequest
SudoRequest(c, a, p) == [command |-> c, args |-> a, password |-> p]
Requests ==
  {SudoRequest(c, a, p) : c \in Commands, a \in ArgLists,
                          p \in {None} \cup {Some(w) : w \in Passwords}}
NoRequest == SudoRequest("", <<>>, None)
\* The requests drawn under each specification: which password a request
\* carries matters only where the passwords themselves are followed.
RequestsObserving(what) ==
  {req \in Requests :
     what # "secrets" => req.password \in {None, Some("hunter2")}}

\* struct SudoResponse
SudoResponse(s, o, e, c, n) ==
  [success |-> s, output |-> o, error |-> e, cached |-> c, needs_password |-> n]
NoResponse == SudoResponse(FALSE, <<>>, None, FALSE, FALSE)

\* Result<SudoResponse, String>; Pending while nothing was returned yet.
Ok(v) == [tag |-> "Ok", val |-> v, err |-> <<>>]
Err(e) == [tag |-> "Err", val |-> NoResponse, err |-> e]
Pending == [tag |-> "Pending", val |-> NoResponse, err |-> <<>>]

\* struct AuthToken
AuthToken(t, u) == [timestamp |-> t, user_id |-> u]

\* A spawned process as other processes and the child see it.
Proc(kind, argv, stdin) == [kind |-> kind, argv |-> argv, stdin |-> stdin]

\* ------------------------------------------------------------- SudoCache
\* The HashMap<u32, AuthToken> is a function whose DOMAIN is its key set.
NewCache == [u \in {} |-> AuthToken(0, u)]

Elapsed(token, t) == t - token.timestamp
DurationFromMinutes(m) == m * SecsPerMinute

\* An is_authenticated that still trusts a token whose age equals the timeout.
is_authenticated_inclusive(toks, user_id, timeout_minutes, t) ==
  IF user_id \in DOMAIN toks
    THEN Elapsed(toks[user_id], t) <= DurationFromMinutes(timeout_minutes)
    ELSE FALSE

\* SudoCache::is_authenticated, at instant t.
is_authenticated(toks, user_id, timeout_minutes, t) ==
  IF user_id \in DOMAIN toks
    THEN Elapsed(toks[user_id], t) < DurationFromMinutes(timeout_minutes)
    ELSE FALSE

\* An authenticate that keeps the timestamp of an entry that exists.
authenticate_keep(toks, user_id, t) ==
  [u \in DOMAIN toks \cup {user_id} |->
     IF u \in DOMAIN toks THEN toks[u] ELSE AuthToken(t, user_id)]

\* An authenticate that records the token without the identity it is for.
authenticate_anon(toks, user_id, t) ==
  [u \in DOMAIN toks \cup {user_id} |->
     IF u = user_id THEN AuthToken(t, 0) ELSE toks[u]]

\* SudoCache::authenticate, at instant t.
authenticate(toks, user_id, t) ==
  [u \in DOMAIN toks \cup {user_id} |->
     IF u = user_id THEN AuthToken(t, user_id) ELSE toks[u]]

\* A clear_expired that keeps an entry whose age equals the timeout.
clear_expired_inclusive(toks, timeout_minutes, t) ==
  LET keep == {u \in DOMAIN toks :
                 Elapsed(toks[u], t) <= DurationFromMinutes(timeout_minutes)}
  IN  [u \in keep |-> toks[u]]

\* SudoCache::clear_expired, at instant t.
clear_expired(toks, timeout_minutes, t) ==
  LET keep == {u \in DOMAIN toks :
                 Elapsed(toks[u], t) < DurationFromMinutes(timeout_minutes)}
  IN  [u \in keep |-> toks[u]]

\* A clear_all that empties a copy of the map.
clear_all_copy(toks) == toks

\* SudoCache::clear_all
clear_all(toks) == [u \in {} |-> AuthToken(0, u)]

\* ------------------------------------------------------ the external tool
StaleSignature == "no password entry"
Stdouts == {<<"done">>}
Stderrs == {<<>>, <<"E:", "failed">>, <<"sudo:", "no password entry">>}
SpawnErrors == {<<"No such file or directory">>}

\* What Command::output() can give: an io::Error, or an exit status with
\* the captured streams.
IoFailure(e) == [io |-> FALSE, status |-> 0, stdout |-> <<>>, stderr |-> <<>>, msg |-> e]
Exited(st, o, e) == [io |-> TRUE, status |-> st, stdout |-> o, stderr |-> e, msg |-> <<>>]
ToolOutputs ==
  {IoFailure(e) : e \in SpawnErrors}
    \cup {Exited(st, o, e) : st \in {0, 1}, o \in Stdouts, e \in Stderrs}

\* sudo -n fails when the trust session is not valid.
NonInteractiveOutputs(session) ==
  {o \in ToolOutputs : (o.io /\ o.status = 0) => session}

\* cmd_args of execute_sudo_command.
ExecArgv(command, args, use_cached) ==
  (IF use_cached THEN <<"-n">> ELSE <<>>) \o <<command>> \o args

\* An execute_sudo_command that classifies the stale-session signature
\* whether or not the command was run with -n.
execute_sudo_command_anymode(out, use_cached) ==
  IF ~out.io
    THEN Err(<<"Failed to execute command: ">> \o out.msg)
  ELSE IF out.status = 0
    THEN Ok(SudoResponse(TRUE, out.stdout, None, use_cached, FALSE))
  ELSE IF Contains(out.stderr, StaleSignature)
    THEN Ok(SudoResponse(FALSE, <<>>, Some(<<"Authentication required">>), FALSE, TRUE))
  ELSE Ok(SudoResponse(FALSE, out.stdout, Some(out.stderr), use_cached, FALSE))

\* execute_sudo_command, given what Command::output() returned.
execute_sudo_command(out, use_cached) ==
  IF ~out.io
    THEN Err(<<"Failed to execute command: ">> \o out.msg)
  ELSE IF out.status = 0
    THEN Ok(SudoResponse(TRUE, out.stdout, None, use_cached, FALSE))
  ELSE IF use_cached /\ Contains(out.stderr, StaleSignature)
    THEN Ok(SudoResponse(FALSE, <<>>, Some(<<"Authentication required">>), FALSE, TRUE))
  ELSE Ok(SudoResponse(FALSE, out.stdout, Some(out.stderr), use_cached, FALSE))

\* A verifier that is handed the password as an argument.
VerifyArgv_leak(password) == <<"-S", "-v", "-p", password>>

\* verify_password: the child is sudo -S -v and the password goes to its
\* standard input, followed by a newline.
VerifyArgv(password) == <<"-S", "-v">>
VerifyStdin(password) == <<password, "\n">>

\* What can happen to the verifier: spawn()?, writeln!()? or
\* wait_with_output()? fails with an io::Error, or the child exits; the
\* child has read the password and may repeat it on its captured streams.
VerifyErrors == {<<"No such file or directory">>, <<"Broken pipe">>}
VerifyOutputs(stdin) ==
  {IoFailure(e) : e \in VerifyErrors}
    \cup {Exited(st, <<>>, e) : st \in {0, 1}, e \in {<<"Sorry, try again.">>, stdin}}

\* Result<bool, Box<dyn Error>> of verify_password, given what became of
\* the child: only its exit status is used.
verify_password(out) ==
  IF out.io
    THEN [tag |-> "Ok", val |-> (out.status = 0), err |-> <<>>]
    ELSE [tag |-> "Err", val |-> FALSE, err |-> out.msg]

\* ----------------------------------------------------------------- state
VARIABLES
  now,        \* the monotonic clock, in seconds
  tokens,     \* SudoCache.tokens
  session,    \* the external tool's own trust session is valid
  pc,         \* position of each fast_sudo request
  request,    \* the SudoRequest of each request
  use_cached, \* local of fast_sudo
  needs_auth, \* local of fast_sudo
  output,     \* what Command::output() last gave the request's execution
  cachedRes,  \* what execute_sudo_command(.., true) returned to the request
  verifyRes,  \* what verify_password returned to the request
  result,     \* what fast_sudo returned
  spawns,     \* the processes the request has spawned, in order
  inserts,    \* number of tokens the request has put into the cache
  clearPc,    \* position of the clear_sudo_cache request
  probePc,    \* position of the check_sudo_privileges request
  call,       \* the last call of the cache's own interface and its result
  observe,    \* which of the histories below is recorded
  lastGrant,  \* when a request that found no token last returned success,
              \* when that is less than the TTL ago and nothing was cleared since
  inWindow,   \* the request was issued after lastGrant, less than the TTL
              \* after it, and no time passed before its freshness check
  cleared,    \* "clearing" from a clear_all that removed the user's token,
              \* "yes" once that clear_sudo_cache has returned, "no" as soon
              \* as a verification is accepted
  afterClear, \* the request was issued while cleared was "yes"
  disturbed,  \* clear_all ran since the request was issued
  holders,    \* the tasks that hold the MutexGuard of SudoCache.tokens
  opPc,       \* position of each task in a method of SudoCache, or "blocked"
              \* while it waits for a process it spawned
  cur,        \* the method of SudoCache each task is in, with its arguments,
              \* the instant it read the clock and what it returns
  lin,        \* the cache of an execution that makes the calls one at a time,
              \* in the order in which they returned
  direct      \* the direct_privilege_escalation request: its position, what
              \* Command::output() gave it and what it returned

vars == <<now, tokens, session, pc, request, use_cached, needs_auth, output,
          cachedRes, verifyRes, result, spawns, inserts, clearPc, probePc,
          call, observe, lastGrant, inWindow, cleared, afterClear, disturbed,
          holders, opPc, cur, lin, direct>>

reqVars == <<pc, request, use_cached, needs_auth, output, cachedRes,
             verifyRes, result, spawns, inserts>>

histVars == <<observe, lastGrant, inWindow, cleared, afterClear, disturbed>>

lockVars == <<holders, opPc, cur, lin>>

NoVerify == [tag |-> "Pending", val |-> FALSE, err |-> <<>>]
NoOutput == [io |-> FALSE, status |-> 0, stdout |-> <<>>, stderr |-> <<>>, msg |-> <<>>]
NoCall == [op |-> "none", user |-> 0, ttl |-> 0, ret |-> FALSE, seq |-> 0]
NoMethod == [op |-> "none", user |-> 0, ttl |-> 0, ret |-> FALSE, at |-> 0]

NoDirect == [pc |-> "idle", command |-> "", args |-> <<>>, out |-> NoOutput,
             res |-> Pending]

InitObserving(what) ==
  /\ now = 0
  /\ tokens = NewCache
  /\ session \in BOOLEAN
  /\ pc = [r \in Reqs |-> "idle"]
  /\ request = [r \in Reqs |-> NoRequest]
  /\ use_cached = [r \in Reqs |-> FALSE]
  /\ needs_auth = [r \in Reqs |-> TRUE]
  /\ output = [r \in Reqs |-> NoOutput]
  /\ cachedRes = [r \in Reqs |-> Pending]
  /\ verifyRes = [r \in Reqs |-> NoVerify]
  /\ result = [r \in Reqs |-> Pending]
  /\ spawns = [r \in Reqs |-> <<>>]
  /\ inserts = [r \in Reqs |-> 0]
  /\ clearPc = "idle"
  /\ probePc = "idle"
  /\ call = NoCall
  /\ observe = what
  /\ lastGrant = -1
  /\ inWindow = [r \in Reqs |-> FALSE]
  /\ cleared = "no"
  /\ afterClear = [r \in Reqs |-> FALSE]
  /\ disturbed = [r \in Reqs |-> FALSE]
  /\ holders = {}
  /\ opPc = [t \in Reqs |-> "idle"]
  /\ cur = [t \in Reqs |-> NoMethod]
  /\ lin = NewCache
  /\ direct = NoDirect

Init == InitObserving("none")

\* ------------------------------------------------------------- fast_sudo
PasswordRequired ==
  SudoResponse(FALSE, <<>>, Some(<<"Password required">>), FALSE, TRUE)
InvalidPassword ==
  SudoResponse(FALSE, <<>>, Some(<<"Invalid password">>), FALSE, TRUE)
AuthenticationError(e) ==
  SudoResponse(FALSE, <<>>, Some(<<"Authentication error: ">> \o e), FALSE, FALSE)

ExecProc(req, cached) ==
  Proc("exec", ExecArgv(req.command, req.args, cached), <<>>)
VerifyProc(password) ==
  Proc("verify", VerifyArgv(password), VerifyStdin(password))

\* return Ok(..)/Err(..) from fast_sudo.
Return(r, res) ==
  /\ result' = [result EXCEPT ![r] = res]
  /\ pc' = [pc EXCEPT ![r] = "done"]
  /\ spawns' = spawns

\* RequirePassword without lines 189-197: a request without a password
\* skips the verification and reaches the execution of line 230.
RequirePassword_unprompted(r) ==
  IF request[r].password = None
    THEN /\ spawns' = [spawns EXCEPT ![r] = Append(@, ExecProc(request[r], FALSE))]
         /\ pc' = [pc EXCEPT ![r] = "wait_fresh"]
         /\ result' = result
    ELSE /\ spawns' = [spawns EXCEPT
                         ![r] = Append(@, VerifyProc(Unwrap(request[r].password)))]
         /\ pc' = [pc EXCEPT ![r] = "wait_verify"]
         /\ result' = result

\* Lines 188-202: with needs_auth set, a request without a password is
\* answered "Password required"; otherwise verify_password is called and
\* the request blocks on the verifier.
RequirePassword(r) ==
  IF request[r].password = None
    THEN Return(r, Ok(PasswordRequired))
    ELSE /\ spawns' = [spawns EXCEPT
                         ![r] = Append(@, VerifyProc(Unwrap(request[r].password)))]
         /\ pc' = [pc EXCEPT ![r] = "wait_verify"]
         /\ result' = result

\* Lines 155-159: the request arrives and sweeps the expired tokens.
FastSudoStart(r, req) ==
  /\ pc[r] \in {"idle", "done"}
  /\ req \in RequestsObserving(observe)
  /\ tokens' = clear_expired(tokens, TimeoutMinutes, now)
  /\ pc' = [pc EXCEPT ![r] = "check"]
  /\ request' = [request EXCEPT ![r] = req]
  /\ use_cached' = [use_cached EXCEPT ![r] = FALSE]
  /\ needs_auth' = [needs_auth EXCEPT ![r] = TRUE]
  /\ output' = [output EXCEPT ![r] = NoOutput]
  /\ cachedRes' = [cachedRes EXCEPT ![r] = Pending]
  /\ verifyRes' = [verifyRes EXCEPT ![r] = NoVerify]
  /\ result' = [result EXCEPT ![r] = Pending]
  /\ spawns' = [spawns EXCEPT ![r] = <<>>]
  /\ inserts' = [inserts EXCEPT ![r] = 0]
  /\ inWindow' = [inWindow EXCEPT ![r] =
       /\ observe = "grant"
       /\ req.password = None
       /\ lastGrant >= 0
       /\ now - lastGrant < DurationFromMinutes(TimeoutMinutes)]
  /\ afterClear' = [afterClear EXCEPT ![r] =
       observe = "clear" /\ req.password = None /\ cleared = "yes"]
  /\ disturbed' = [disturbed EXCEPT ![r] = FALSE]
  /\ UNCHANGED <<now, session, clearPc, probePc, direct, call, observe, lastGrant, cleared,
                 lockVars>>

\* AfterCheck that verifies a supplied password first and tries the cached
\* path only for requests without one.
AfterCheck_passwordFirst(r, fresh) ==
  IF fresh /\ request[r].password = None
    THEN /\ use_cached' = [use_cached EXCEPT ![r] = TRUE]
         /\ needs_auth' = [needs_auth EXCEPT ![r] = FALSE]
         /\ spawns' = [spawns EXCEPT ![r] = Append(@, ExecProc(request[r], TRUE))]
         /\ pc' = [pc EXCEPT ![r] = "wait_cached"]
         /\ result' = result
    ELSE /\ UNCHANGED <<use_cached, needs_auth>>
         /\ RequirePassword(r)

\* Lines 161-172 (then 188-202): what follows the freshness check; with a
\* fresh token the command is spawned with -n, without one the password is
\* required.
AfterCheck(r, fresh) ==
  IF fresh
    THEN /\ use_cached' = [use_cached EXCEPT ![r] = TRUE]
         /\ needs_auth' = [needs_auth EXCEPT ![r] = FALSE]
         /\ spawns' = [spawns EXCEPT ![r] = Append(@, ExecProc(request[r], TRUE))]
         /\ pc' = [pc EXCEPT ![r] = "wait_cached"]
         /\ result' = result
    ELSE /\ UNCHANGED <<use_cached, needs_auth>>
         /\ RequirePassword(r)

\* A freshness check that trusts the tool's session without looking at the
\* cache.
CheckCache_optimistic(r) ==
  /\ pc[r] = "check"
  /\ AfterCheck(r, TRUE)
  /\ UNCHANGED <<now, tokens, session, request, output, cachedRes, verifyRes,
                 inserts, clearPc, probePc, direct, call, lockVars>>
  /\ UNCHANGED histVars

\* Line 165: the freshness check of the request.
CheckCache(r) ==
  /\ pc[r] = "check"
  /\ AfterCheck(r, is_authenticated(tokens, CurrentUid, TimeoutMinutes, now))
  /\ UNCHANGED <<now, tokens, session, request, output, cachedRes, verifyRes,
                 inserts, clearPc, probePc, direct, call, lockVars>>
  /\ UNCHANGED histVars

\* MatchCached without the needs_password arm: every failure of the cached
\* execution is returned.
MatchCached_nofallthrough(r, res) ==
  /\ Return(r, res)
  /\ UNCHANGED <<use_cached, needs_auth>>

\* MatchCached that retries every failure of the cached execution with the
\* credential path.
MatchCached_retry(r, res) ==
  IF res.tag = "Err" THEN
    /\ Return(r, res)
    /\ UNCHANGED <<use_cached, needs_auth>>
  ELSE IF res.val.success THEN
    /\ Return(r, res)
    /\ UNCHANGED <<use_cached, needs_auth>>
  ELSE
    /\ needs_auth' = [needs_auth EXCEPT ![r] = TRUE]
    /\ use_cached' = [use_cached EXCEPT ![r] = FALSE]
    /\ RequirePassword(r)

\* MatchCached that runs the cached execution again when it could not be
\* spawned.
MatchCached_again(r, res) ==
  IF res.tag = "Err" THEN
    /\ spawns' = [spawns EXCEPT ![r] = Append(@, ExecProc(request[r], TRUE))]
    /\ UNCHANGED <<pc, result, use_cached, needs_auth>>
  ELSE IF res.val.success THEN
    /\ Return(r, res)
    /\ UNCHANGED <<use_cached, needs_auth>>
  ELSE IF res.val.needs_password THEN
    /\ needs_auth' = [needs_auth EXCEPT ![r] = TRUE]
    /\ use_cached' = [use_cached EXCEPT ![r] = FALSE]
    /\ RequirePassword(r)
  ELSE
    /\ Return(r, res)
    /\ UNCHANGED <<use_cached, needs_auth>>

\* Lines 172-186 (then 188-202): the match on what the cached execution
\* returned.
MatchCached(r, res) ==
  IF res.tag = "Err" THEN
    /\ Return(r, res)
    /\ UNCHANGED <<use_cached, needs_auth>>
  ELSE IF res.val.success THEN
    /\ Return(r, res)
    /\ UNCHANGED <<use_cached, needs_auth>>
  ELSE IF res.val.needs_password THEN
    /\ needs_auth' = [needs_auth EXCEPT ![r] = TRUE]
    /\ use_cached' = [use_cached EXCEPT ![r] = FALSE]
    /\ RequirePassword(r)
  ELSE
    /\ Return(r, res)
    /\ UNCHANGED <<use_cached, needs_auth>>

\* Lines 172-202: the cached execution returns.
CachedExecReturn(r, out) ==
  /\ pc[r] = "wait_cached"
  /\ out \in NonInteractiveOutputs(session)
  /\ output' = [output EXCEPT ![r] = out]
  /\ LET res == execute_sudo_command(out, TRUE) IN
       /\ cachedRes' = [cachedRes EXCEPT ![r] = res]
       /\ MatchCached(r, res)
  /\ UNCHANGED <<now, tokens, session, request, verifyRes, inserts,
                 clearPc, probePc, direct, call, lockVars>>
  /\ UNCHANGED histVars

\* MatchVerify that goes on after a rejected password.
MatchVerify_lenient(r, v) ==
  IF v.tag = "Err" THEN Return(r, Ok(AuthenticationError(v.err)))
  ELSE /\ pc' = [pc EXCEPT ![r] = "auth"]
       /\ UNCHANGED <<result, spawns>>

\* MatchVerify that treats a verifier it could not run as having accepted.
MatchVerify_unwrap(r, v) ==
  IF v.tag = "Ok" /\ ~v.val THEN Return(r, Ok(InvalidPassword))
  ELSE /\ pc' = [pc EXCEPT ![r] = "auth"]
       /\ UNCHANGED <<result, spawns>>

\* Lines 202-225: the match on what verify_password returned.
MatchVerify(r, v) ==
  IF v.tag = "Err" THEN Return(r, Ok(AuthenticationError(v.err)))
  ELSE IF v.val THEN /\ pc' = [pc EXCEPT ![r] = "auth"]
                     /\ UNCHANGED <<result, spawns>>
  ELSE Return(r, Ok(InvalidPassword))

\* Lines 202-225: verify_password returns. A verifier that exited zero has
\* established the tool's trust session.
VerifyReturn(r, out) ==
  /\ pc[r] = "wait_verify"
  /\ out \in VerifyOutputs(spawns[r][Len(spawns[r])].stdin)
  /\ LET v == verify_password(out) IN
       /\ verifyRes' = [verifyRes EXCEPT ![r] = v]
       /\ MatchVerify(r, v)
       /\ cleared' = IF v.tag = "Ok" /\ v.val THEN "no" ELSE cleared
       /\ afterClear' = IF v.tag = "Ok" /\ v.val
                          THEN [q \in Reqs |-> FALSE] ELSE afterClear
  /\ session' = (session \/ (out.io /\ out.status = 0))
  /\ UNCHANGED <<now, tokens, request, use_cached, needs_auth, output,
                 cachedRes, inserts, clearPc, probePc, direct, call, lockVars>>
  /\ UNCHANGED <<observe, lastGrant, inWindow, disturbed>>

\* Authenticate without cache.authenticate(user_id).
Authenticate_forget(r) ==
  /\ pc[r] = "auth"
  /\ use_cached' = [use_cached EXCEPT ![r] = FALSE]
  /\ spawns' = [spawns EXCEPT ![r] = Append(@, ExecProc(request[r], FALSE))]
  /\ pc' = [pc EXCEPT ![r] = "wait_fresh"]
  /\ UNCHANGED <<now, tokens, session, request, needs_auth, output, cachedRes,
                 verifyRes, result, inserts, clearPc, probePc, direct, call, lockVars>>
  /\ UNCHANGED histVars

\* Lines 204-205 and 230: the token is recorded and the command spawned.
Authenticate(r) ==
  /\ pc[r] = "auth"
  /\ tokens' = authenticate(tokens, CurrentUid, now)
  /\ inserts' = [inserts EXCEPT ![r] = @ + 1]
  /\ use_cached' = [use_cached EXCEPT ![r] = FALSE]
  /\ spawns' = [spawns EXCEPT ![r] = Append(@, ExecProc(request[r], FALSE))]
  /\ pc' = [pc EXCEPT ![r] = "wait_fresh"]
  /\ UNCHANGED <<now, session, request, needs_auth, output, cachedRes,
                 verifyRes, result, clearPc, probePc, direct, call, lockVars>>
  /\ UNCHANGED histVars

\* Line 230: the execution with use_cached = false returns.
FreshExecReturn(r, out) ==
  /\ pc[r] = "wait_fresh"
  /\ out \in ToolOutputs
  /\ output' = [output EXCEPT ![r] = out]
  /\ LET res == execute_sudo_command(out, FALSE) IN
       /\ Return(r, res)
       /\ lastGrant' =
            IF /\ observe = "grant"
               /\ ~disturbed[r]
               /\ cachedRes[r].tag = "Pending"
               /\ res.tag = "Ok"
               /\ res.val.success
              THEN now ELSE lastGrant
  /\ UNCHANGED <<now, tokens, session, request, use_cached, needs_auth,
                 cachedRes, verifyRes, inserts, clearPc, probePc, direct, call, lockVars>>
  /\ UNCHANGED <<observe, inWindow, cleared, afterClear, disturbed>>

\* ------------------------------------------------------ clear_sudo_cache
ClearArgv == <<"-k">>

\* Lines 235-240: clear_all, then sudo -k is spawned.
ClearStart ==
  /\ clearPc = "idle"
  /\ tokens' = clear_all(tokens)
  /\ clearPc' = "wait_k"
  /\ lastGrant' = -1
  /\ inWindow' = [r \in Reqs |-> FALSE]
  /\ cleared' = IF observe = "clear" /\ CurrentUid \in DOMAIN tokens
                  THEN "clearing"
                  ELSE IF cleared = "yes" THEN "yes" ELSE "no"
  /\ disturbed' = [r \in Reqs |-> observe = "grant" /\ pc[r] \notin {"idle", "done"}]
  /\ UNCHANGED <<now, session, probePc, direct, call, lockVars>>
  /\ UNCHANGED reqVars
  /\ UNCHANGED <<observe, afterClear>>

\* Lines 238-242: sudo -k returns and Ok(()) is returned; whether the tool
\* ran at all is discarded (let _ =).
ClearReturn(ran) ==
  /\ clearPc = "wait_k"
  /\ session' = (session /\ ~ran)
  /\ clearPc' = "idle"
  /\ cleared' = IF cleared = "clearing" THEN "yes" ELSE cleared
  /\ UNCHANGED <<now, tokens, probePc, direct, call, lockVars>>
  /\ UNCHANGED reqVars
  /\ UNCHANGED <<observe, lastGrant, inWindow, afterClear, disturbed>>

\* ------------------------------------------------- check_sudo_privileges
ProbeArgv == <<"-n", "true">>

\* Lines 247-249.
ProbeStart ==
  /\ probePc = "idle"
  /\ probePc' = "wait_probe"
  /\ UNCHANGED <<now, tokens, session, clearPc, call, lockVars, direct>>
  /\ UNCHANGED reqVars
  /\ UNCHANGED histVars

\* Lines 250-252.
ProbeReturn(out) ==
  /\ probePc = "wait_probe"
  /\ out \in NonInteractiveOutputs(session)
  /\ probePc' = "idle"
  /\ UNCHANGED <<now, tokens, session, clearPc, call, lockVars, direct>>
  /\ UNCHANGED reqVars
  /\ UNCHANGED histVars

\* ----------------------------------------------------------- environment
\* Time passes.
Tick ==
  /\ now + TickStep <= MaxNow
  /\ now' = now + TickStep
  /\ lastGrant' =
       IF lastGrant >= 0 /\ now' - lastGrant < DurationFromMinutes(TimeoutMinutes)
         THEN lastGrant ELSE -1
  /\ inWindow' = [r \in Reqs |-> inWindow[r] /\ pc[r] # "check"]
  /\ UNCHANGED <<tokens, session, clearPc, probePc, direct, call, lockVars>>
  /\ UNCHANGED reqVars
  /\ UNCHANGED <<observe, cleared, afterClear, disturbed>>

\* The tool's trust session ends on its own (its timeout is not the
\* cache's), which is what the stale-session classification is for.
SessionExpire ==
  /\ session
  /\ session' = FALSE
  /\ UNCHANGED <<now, tokens, clearPc, probePc, direct, call, lockVars>>
  /\ UNCHANGED reqVars
  /\ UNCHANGED histVars

Next ==
  \/ \E r \in Reqs, req \in Requests : FastSudoStart(r, req)
  \/ \E r \in Reqs : CheckCache(r)
  \/ \E r \in Reqs, out \in ToolOutputs : CachedExecReturn(r, out)
  \/ \E r \in Reqs, out \in VerifyOutputs(<<>>) \cup
                            UNION {VerifyOutputs(VerifyStdin(p)) : p \in Passwords} :
       VerifyReturn(r, out)
  \/ \E r \in Reqs : Authenticate(r)
  \/ \E r \in Reqs, out \in ToolOutputs : FreshExecReturn(r, out)
  \/ ClearStart
  \/ \E ran \in BOOLEAN : ClearReturn(ran)
  \/ Tick
  \/ SessionExpire

\* The program with its privilege probe as well.
NextProbe ==
  \/ Next
  \/ ProbeStart
  \/ \E out \in ToolOutputs : ProbeReturn(out)

\* ------------------------------------------- the cache's own interface
\* SudoCache's methods are public: calls with any user and any timeout.
Ttls == {0, 8, 15}

Called(op, u, m, ret) ==
  call' = [op |-> op, user |-> u, ttl |-> m, ret |-> ret, seq |-> 1 - call.seq]

ApiIsAuthenticated(u, m) ==
  /\ Called("is_authenticated", u, m, is_authenticated(tokens, u, m, now))
  /\ UNCHANGED <<now, tokens, session, clearPc, probePc, direct, lockVars>>
  /\ UNCHANGED reqVars
  /\ UNCHANGED histVars

ApiAuthenticate(u) ==
  /\ tokens' = authenticate(tokens, u, now)
  /\ Called("authenticate", u, 0, FALSE)
  /\ UNCHANGED <<now, session, clearPc, probePc, direct, lockVars>>
  /\ UNCHANGED reqVars
  /\ UNCHANGED histVars

ApiClearExpired(m) ==
  /\ tokens' = clear_expired(tokens, m, now)
  /\ Called("clear_expired", 0, m, FALSE)
  /\ UNCHANGED <<now, session, clearPc, probePc, direct, lockVars>>
  /\ UNCHANGED reqVars
  /\ UNCHANGED histVars

ApiClearAll ==
  /\ tokens' = clear_all(tokens)
  /\ Called("clear_all", 0, 0, FALSE)
  /\ UNCHANGED <<now, session, clearPc, probePc, direct, lockVars>>
  /\ UNCHANGED reqVars
  /\ UNCHANGED histVars

NextCache ==
  \/ \E u \in Users, m \in Ttls : ApiIsAuthenticated(u, m)
  \/ \E u \in Users : ApiAuthenticate(u)
  \/ \E m \in Ttls : ApiClearExpired(m)
  \/ ApiClearAll
  \/ Tick

\* --------------------------------------------- the lock of SudoCache
\* The calls the requests make: fast_sudo calls clear_expired(15),
\* is_authenticated(uid, 15) and authenticate(uid), clear_sudo_cache calls
\* clear_all; the methods are public and take any user.
Methods ==
  {[op |-> "is_authenticated", user |-> u, ttl |-> TimeoutMinutes,
    ret |-> FALSE, at |-> 0] : u \in Users}
    \cup {[op |-> "authenticate", user |-> u, ttl |-> 0,
           ret |-> FALSE, at |-> 0] : u \in Users}
    \cup {[op |-> "clear_expired", user |-> 0, ttl |-> TimeoutMinutes,
           ret |-> FALSE, at |-> 0],
          [op |-> "clear_all", user |-> 0, ttl |-> 0, ret |-> FALSE, at |-> 0]}

\* What the body of method c makes of the map toks at instant t.
Body(toks, c, t) ==
  CASE c.op = "authenticate" -> authenticate(toks, c.user, t)
    [] c.op = "clear_expired" -> clear_expired(toks, c.ttl, t)
    [] c.op = "clear_all" -> clear_all(toks)
    [] OTHER -> toks

\* What method c returns on the map toks at instant t.
Returns(toks, c, t) ==
  c.op = "is_authenticated" /\ is_authenticated(toks, c.user, c.ttl, t)

\* A task calls a method of the cache.
CacheCall(t, c) ==
  /\ opPc[t] = "idle"
  /\ c \in Methods
  /\ cur' = [cur EXCEPT ![t] = c]
  /\ opPc' = [opPc EXCEPT ![t] = "lock"]
  /\ UNCHANGED <<now, tokens, session, clearPc, probePc, direct, call, holders, lin>>
  /\ UNCHANGED reqVars
  /\ UNCHANGED histVars

\* A lock() that does not wait for the guard to be dropped.
Lock_nonexclusive(t) ==
  /\ opPc[t] = "lock"
  /\ holders' = holders \cup {t}
  /\ opPc' = [opPc EXCEPT ![t] = "held"]
  /\ UNCHANGED <<now, tokens, session, clearPc, probePc, direct, call, cur, lin>>
  /\ UNCHANGED reqVars
  /\ UNCHANGED histVars

\* self.tokens.lock() (lines 45, 54, 63, 70): blocks until no task holds
\* the guard.
Lock(t) ==
  /\ opPc[t] = "lock"
  /\ holders = {}
  /\ holders' = {t}
  /\ opPc' = [opPc EXCEPT ![t] = "held"]
  /\ UNCHANGED <<now, tokens, session, clearPc, probePc, direct, call, cur, lin>>
  /\ UNCHANGED reqVars
  /\ UNCHANGED histVars

\* The body of the method, through the guard: the clock is read and the map
\* read or updated in place.
Access(t) ==
  /\ opPc[t] = "held"
  /\ tokens' = Body(tokens, cur[t], now)
  /\ cur' = [cur EXCEPT ![t].ret = Returns(tokens, cur[t], now), ![t].at = now]
  /\ opPc' = [opPc EXCEPT ![t] = "unlock"]
  /\ UNCHANGED <<now, session, clearPc, probePc, direct, call, holders, lin>>
  /\ UNCHANGED reqVars
  /\ UNCHANGED histVars

\* The guard goes out of scope and the method returns.
Unlock(t) ==
  /\ opPc[t] = "unlock"
  /\ holders' = holders \ {t}
  /\ opPc' = [opPc EXCEPT ![t] = "idle"]
  /\ lin' = Body(lin, cur[t], cur[t].at)
  /\ UNCHANGED <<now, tokens, session, clearPc, probePc, direct, call, cur>>
  /\ UNCHANGED reqVars
  /\ UNCHANGED histVars

\* A task that spawns its process from inside the method, the guard held.
SpawnTool_guarded(t) ==
  /\ opPc[t] \in {"idle", "held"}
  /\ opPc' = [opPc EXCEPT ![t] = "blocked"]
  /\ UNCHANGED <<now, tokens, session, clearPc, probePc, direct, call, holders, cur, lin>>
  /\ UNCHANGED reqVars
  /\ UNCHANGED histVars

\* Command::output() / wait_with_output() (lines 83-94, 112-114, 238-240):
\* the task spawns a process and blocks until it exits; the calls are
\* statements of fast_sudo, verify_password, execute_sudo_command and
\* clear_sudo_cache, outside every method of the cache.
SpawnTool(t) ==
  /\ opPc[t] = "idle"
  /\ opPc' = [opPc EXCEPT ![t] = "blocked"]
  /\ UNCHANGED <<now, tokens, session, clearPc, probePc, direct, call, holders, cur, lin>>
  /\ UNCHANGED reqVars
  /\ UNCHANGED histVars

\* The process exits; nothing makes it do so.
ToolExit(t) ==
  /\ opPc[t] = "blocked"
  /\ opPc' = [opPc EXCEPT ![t] = "idle"]
  /\ UNCHANGED <<now, tokens, session, clearPc, probePc, direct, call, holders, cur, lin>>
  /\ UNCHANGED reqVars
  /\ UNCHANGED histVars

NextLock ==
  \/ \E t \in Reqs, c \in Methods : CacheCall(t, c)
  \/ \E t \in Reqs : Lock(t)
  \/ \E t \in Reqs : Access(t)
  \/ \E t \in Reqs : Unlock(t)
  \/ \E t \in Reqs : SpawnTool(t)
  \/ \E t \in Reqs : ToolExit(t)
  \/ Tick

\* The requests as tasks that call the cache and wait for processes, with
\* the mutex of the cache made explicit.
SpecLock == Init /\ [][NextLock]_vars

\* ------------------------------------------- direct_privilege_escalation
\* argv of the process of lines 263-265.
DirectArgv(command, args) == <<command>> \o args

\* direct_privilege_escalation, given what Command::output() returned.
direct_privilege_escalation(out) ==
  IF ~out.io
    THEN Err(<<"Failed to execute command: ">> \o out.msg)
    ELSE Ok(SudoResponse(out.status = 0, out.stdout,
                         IF out.stderr = <<>> THEN None ELSE Some(out.stderr),
                         FALSE, FALSE))

\* Lines 263-266: the command is spawned under sudo.
DirectStart(c, a) ==
  /\ direct.pc \in {"idle", "done"}
  /\ c \in Commands
  /\ a \in ArgLists
  /\ direct' = [pc |-> "wait", command |-> c, args |-> a, out |-> NoOutput,
                res |-> Pending]
  /\ UNCHANGED <<now, tokens, session, clearPc, probePc, call, lockVars>>
  /\ UNCHANGED reqVars
  /\ UNCHANGED histVars

\* Lines 267-278: the process has exited, or could not be run.
DirectReturn(out) ==
  /\ direct.pc = "wait"
  /\ out \in ToolOutputs
  /\ direct' = [direct EXCEPT !.pc = "done", !.out = out,
                              !.res = direct_privilege_escalation(out)]
  /\ UNCHANGED <<now, tokens, session, clearPc, probePc, call, lockVars>>
  /\ UNCHANGED reqVars
  /\ UNCHANGED histVars

NextDirect ==
  \/ NextCache
  \/ \E c \in Commands, a \in ArgLists : DirectStart(c, a)
  \/ \E out \in ToolOutputs : DirectReturn(out)

\* direct_privilege_escalation running while the cache is in use.
SpecDirect == Init /\ [][NextDirect]_vars

\* The cache alone, called in any order as time passes.
SpecCache == Init /\ [][NextCache]_vars

\* The orchestrator with its support operations, under every interleaving.
Spec == Init /\ [][Next]_vars

\* The same, where a request that can take a step of its own takes it and
\* every process a request waits for exits (or fails to run) in the end.
SpecFair ==
  /\ Init
  /\ [][Next]_vars
  /\ \A r \in Reqs :
       /\ WF_vars(CheckCache(r))
       /\ WF_vars(Authenticate(r))
       /\ WF_vars(\E out \in ToolOutputs : CachedExecReturn(r, out))
       /\ WF_vars(\E out \in VerifyOutputs(<<>>) \cup
                     UNION {VerifyOutputs(VerifyStdin(p)) : p \in Passwords} :
                    VerifyReturn(r, out))
       /\ WF_vars(\E out \in ToolOutputs : FreshExecReturn(r, out))

\* The same program, recording when success was granted (lastGrant, inWindow).
SpecGrant == InitObserving("grant") /\ [][Next]_vars

\* The same program, recording completed clears (cleared, afterClear).
SpecClear == InitObserving("clear") /\ [][Next]_vars

\* Every operation of the file that spawns a process, with requests that
\* carry different passwords.
SpecProcs == InitObserving("secrets") /\ [][NextProbe]_vars

\* ---------------------------------------------------------------- claims
\* The cache holds a token of the current user younger than the 15 minutes.
FreshToken ==
  /\ CurrentUid \in DOMAIN tokens
  /\ now - tokens[CurrentUid].timestamp < 15 * 60

\* The request has just received the outcome of its cached execution.
CachedReturned(r) == pc[r] = "wait_cached" /\ pc'[r] # "wait_cached"
\* The request has just received the outcome of its verification.
VerifyReturned(r) == pc[r] = "wait_verify" /\ pc'[r] # "wait_verify"
\* The request has just made its freshness check.
Checked(r) == pc[r] = "check" /\ pc'[r] # "check"

HasKind(s, k) == \E i \in DOMAIN s : s[i].kind = k

\* C2: when the cached execution of a request reports needs_password (the
\* stale-session signature), the request goes on as one without a token:
\* without a password it returns success=false, needs_password=true,
\* error "Password required"; with a password it spawns the verifier with it.
\* The response of the cached execution is never what the request returns.
C2_StaleTrustFallsThrough ==
  [][\A r \in Reqs :
      /\ (CachedReturned(r) /\ cachedRes'[r].tag = "Ok"
            /\ cachedRes'[r].val.needs_password)
         => /\ tokens' = tokens
            /\ IF request[r].password = None
                 THEN /\ pc'[r] = "done"
                      /\ result'[r].tag = "Ok"
                      /\ result'[r].val =
                           [success |-> FALSE, output |-> <<>>,
                            error |-> <<<<"Password required">>>>,
                            cached |-> FALSE, needs_password |-> TRUE]
                      /\ spawns'[r] = spawns[r]
                 ELSE /\ pc'[r] = "wait_verify"
                      /\ result'[r].tag = "Pending"
                      /\ spawns'[r] = Append(spawns[r],
                           [kind |-> "verify", argv |-> <<"-S", "-v">>,
                            stdin |-> <<request[r].password[1], "\n">>])
      /\ (cachedRes'[r].tag = "Ok" /\ cachedRes'[r].val.needs_password
            /\ result'[r].tag = "Ok")
         => /\ result'[r].val # cachedRes'[r].val
            /\ (~result'[r].val.needs_password => verifyRes'[r].tag # "Pending")
  ]_vars

\* C2 witness: one request answered "Password required" after a stale cached
\* execution while another, with a password, waits for the verifier after one.
C2_Witness ==
  /\ \E r \in Reqs :
       /\ pc[r] = "done"
       /\ cachedRes[r].tag = "Ok" /\ cachedRes[r].val.needs_password
       /\ result[r].tag = "Ok" /\ result[r].val.needs_password
       /\ request[r].password = None
  /\ \E r \in Reqs :
       /\ pc[r] = "wait_verify"
       /\ cachedRes[r].tag = "Ok" /\ cachedRes[r].val.needs_password

\* C3: when the cached execution exits non-zero without the stale-session
\* signature on stderr, the request returns at once success=false,
\* needs_password=false, error = the tool's stderr, whether or not it carries
\* a password; it has spawned that one process only (no verifier, no second
\* execution) and has not touched the cache.
C3_GenuineFailureReturned ==
  [][\A r \in Reqs :
      (CachedReturned(r) /\ output'[r].io /\ output'[r].status # 0
         /\ ~Contains(output'[r].stderr, "no password entry"))
      => /\ pc'[r] = "done"
         /\ result'[r].tag = "Ok"
         /\ ~result'[r].val.success
         /\ ~result'[r].val.needs_password
         /\ result'[r].val.error = <<output'[r].stderr>>
         /\ spawns'[r] = spawns[r]
         /\ Len(spawns[r]) = 1
         /\ spawns[r][1].kind = "exec"
         /\ inserts'[r] = 0
         /\ tokens' = tokens
  ]_vars

\* C3 witness: a request with a password whose cached execution failed with
\* an error of the command has returned that error.
C3_Witness ==
  \E r \in Reqs :
    /\ pc[r] = "done"
    /\ request[r].password # None
    /\ output[r].io /\ output[r].status # 0
    /\ output[r].stderr = <<"E:", "failed">>
    /\ cachedRes[r] = result[r]
    /\ result[r].val.error = <<<<"E:", "failed">>>>

\* C4: when the verifier rejects the password of a request, the request
\* returns success=false, needs_password=true, error "Invalid password",
\* cached=false; it spawns nothing after the verifier and has put no token
\* into the cache, and no step of a request other than its sweep and its
\* insertion after an accepted verification changes the cache.
C4_RejectedPassword ==
  [][\A r \in Reqs :
      /\ (VerifyReturned(r) /\ verifyRes'[r].tag = "Ok" /\ ~verifyRes'[r].val)
         => /\ pc'[r] = "done"
            /\ result'[r].tag = "Ok"
            /\ result'[r].val =
                 [success |-> FALSE, output |-> <<>>,
                  error |-> <<<<"Invalid password">>>>,
                  cached |-> FALSE, needs_password |-> TRUE]
            /\ spawns'[r] = spawns[r]
            /\ spawns[r][Len(spawns[r])].kind = "verify"
            /\ inserts'[r] = 0
            /\ tokens' = tokens
      /\ (pc[r] \in {"check", "wait_cached", "wait_verify"} /\ pc'[r] # pc[r])
         => tokens' = tokens
      /\ (pc[r] = "done" /\ pc'[r] = "done")
         => (spawns'[r] = spawns[r] /\ inserts'[r] = inserts[r])
  ]_vars

\* C4 witness: a request whose password was rejected has returned.
C4_Witness ==
  \E r \in Reqs :
    /\ pc[r] = "done"
    /\ verifyRes[r].tag = "Ok" /\ ~verifyRes[r].val
    /\ result[r].val.error = <<<<"Invalid password">>>>

\* C5: a request without a password whose freshness check finds no token of
\* the current user younger than 15 minutes returns success=false,
\* needs_password=true, error "Password required", cached=false, empty
\* output; it has spawned no process and the cache is as it was.
C5_NoTokenNoPassword ==
  [][\A r \in Reqs :
      (Checked(r) /\ ~FreshToken /\ request[r].password = None)
      => /\ pc'[r] = "done"
         /\ result'[r].tag = "Ok"
         /\ result'[r].val =
              [success |-> FALSE, output |-> <<>>,
               error |-> <<<<"Password required">>>>,
               cached |-> FALSE, needs_password |-> TRUE]
         /\ spawns'[r] = <<>>
         /\ inserts'[r] = 0
         /\ tokens' = tokens
  ]_vars

\* C5 witness: a request without a password was answered "Password required"
\* without any process having been spawned.
C5_Witness ==
  \E r \in Reqs :
    /\ pc[r] = "done"
    /\ request[r].password = None
    /\ cachedRes[r].tag = "Pending"
    /\ spawns[r] = <<>>
    /\ result[r].tag = "Ok" /\ result[r].val.needs_password

\* C6: a request whose freshness check finds a fresh token spawns the
\* execution with -n next, whether or not it carries a password, and has
\* returned nothing yet; the verifier is spawned in such a request only
\* after the cached execution, and only when that reported needs_password.
C6_CachedPathFirst ==
  [][\A r \in Reqs :
      /\ (Checked(r) /\ FreshToken)
         => /\ pc'[r] = "wait_cached"
            /\ result'[r].tag = "Pending"
            /\ spawns'[r] =
                 <<[kind |-> "exec",
                    argv |-> <<"-n", request[r].command>> \o request[r].args,
                    stdin |-> <<>>]>>
      /\ pc'[r] = "wait_cached" => ~HasKind(spawns'[r], "verify")
      /\ (cachedRes'[r].tag # "Pending" /\ HasKind(spawns'[r], "verify"))
         => /\ spawns'[r][1].argv[1] = "-n"
            /\ spawns'[r][2].kind = "verify"
            /\ cachedRes'[r].tag = "Ok"
            /\ cachedRes'[r].val.needs_password
  ]_vars

\* C6 witness: a request with a password found a fresh token and waits for
\* the verifier after its cached execution.
C6_Witness ==
  \E r \in Reqs :
    /\ request[r].password # None
    /\ pc[r] = "wait_verify"
    /\ Len(spawns[r]) = 2
    /\ spawns[r][1].argv[1] = "-n"

\* C7: when verify_password fails with an I/O error, the request returns
\* success=false, needs_password=false and an error that begins
\* "Authentication error"; it puts no token into the cache and spawns
\* nothing after the verifier.
C7_VerifierIoFailure ==
  [][\A r \in Reqs :
      (VerifyReturned(r) /\ verifyRes'[r].tag = "Err")
      => /\ pc'[r] = "done"
         /\ result'[r].tag = "Ok"
         /\ ~result'[r].val.success
         /\ ~result'[r].val.needs_password
         /\ Len(result'[r].val.error) = 1
         /\ result'[r].val.error[1][1] = "Authentication error: "
         /\ SubSeq(result'[r].val.error[1], 2, Len(result'[r].val.error[1]))
              = verifyRes'[r].err
         /\ spawns'[r] = spawns[r]
         /\ spawns[r][Len(spawns[r])].kind = "verify"
         /\ inserts'[r] = 0
         /\ tokens' = tokens
  ]_vars

\* C7 witness: a request whose verifier could not be run has returned.
C7_Witness ==
  \E r \in Reqs :
    /\ pc[r] = "done"
    /\ verifyRes[r].tag = "Err"
    /\ result[r].tag = "Ok"
    /\ ~result[r].val.needs_password

\* C8: no password appears in the argument list of any spawned process
\* (verifier, cached or fresh execution, sudo -k, the probe), in the output
\* or error of any response or in the cache, which holds timestamps and user
\* ids only; the only place a password reaches is the standard input of the
\* verifier spawned by the request that carries it.
C8_PasswordOnlyOnVerifierStdin ==
  /\ \A w \in Passwords :
       /\ \A r \in Reqs : \A i \in DOMAIN spawns[r] :
            /\ ~Contains(spawns[r][i].argv, w)
            /\ Contains(spawns[r][i].stdin, w)
                 => /\ spawns[r][i].kind = "verify"
                    /\ request[r].password = <<w>>
       /\ ~Contains(ClearArgv, w)
       /\ ~Contains(ProbeArgv, w)
       /\ \A r \in Reqs :
            /\ ~Contains(result[r].val.output, w)
            /\ \A i \in DOMAIN result[r].val.error :
                 ~Contains(result[r].val.error[i], w)
            /\ ~Contains(result[r].err, w)
  /\ \A u \in DOMAIN tokens :
       /\ DOMAIN tokens[u] = {"timestamp", "user_id"}
       /\ tokens[u].timestamp \in 0..MaxNow
       /\ tokens[u].user_id \in Users
  /\ \A r \in Reqs : \A i \in DOMAIN spawns[r] :
       spawns[r][i].kind = "verify"
         => spawns[r][i].stdin = <<request[r].password[1], "\n">>

\* C8 witness: two requests with different passwords have each been through
\* verification and execution while sudo -k and the probe are running.
C8_Witness ==
  /\ \A r \in Reqs :
       /\ pc[r] = "done"
       /\ Len(spawns[r]) = 2
       /\ spawns[r][1].kind = "verify"
       /\ spawns[r][2].kind = "exec"
       /\ result[r].tag = "Ok"
  /\ request["r1"].password = <<"hunter2">>
  /\ request["r2"].password = <<"letmein">>
  /\ CurrentUid \in DOMAIN tokens
  /\ clearPc = "wait_k"
  /\ probePc = "wait_probe"

\* C1 as stated: a request that found no token, whose password was accepted
\* and whose command exited zero returns success=true, cached=false; and a
\* request without a password issued after such a return and less than 15
\* minutes after it (no clear_sudo_cache since the first request was issued,
\* no time lost before the freshness check), with the trust session valid and
\* no failing command, returns success=true, cached=true, needs_password=false
\* without the verifier.
C1_AsStated ==
  \A r \in Reqs :
    /\ (pc[r] = "done" /\ cachedRes[r].tag = "Pending"
          /\ verifyRes[r].tag = "Ok" /\ verifyRes[r].val
          /\ output[r].io /\ output[r].status = 0)
       => /\ result[r].tag = "Ok"
          /\ result[r].val.success
          /\ ~result[r].val.cached
    /\ (pc[r] = "done" /\ inWindow[r] /\ request[r].password = None /\ session
          /\ (cachedRes[r].tag = "Pending" \/ (output[r].io /\ output[r].status = 0)))
       => /\ result[r].tag = "Ok"
          /\ result[r].val.success
          /\ result[r].val.cached
          /\ ~result[r].val.needs_password
          /\ ~HasKind(spawns[r], "verify")

\* C1, amended: an accepted verification is followed by the insertion of a
\* token stamped at the insertion, before the command runs, and a zero exit
\* of that command returns success=true, cached=false; a request without a
\* password whose freshness check finds that token in the cache and younger
\* than 15 minutes runs the command with -n, and a zero exit of it returns
\* success=true, cached=true, needs_password=false, the verifier not having
\* been spawned.
C1_GrantThenCached ==
  [][\A r \in Reqs :
      /\ (VerifyReturned(r) /\ verifyRes'[r].tag = "Ok" /\ verifyRes'[r].val)
         => (pc'[r] = "auth" /\ tokens' = tokens)
      /\ (pc[r] = "auth" /\ pc'[r] # "auth")
         => /\ pc'[r] = "wait_fresh"
            /\ CurrentUid \in DOMAIN tokens'
            /\ tokens'[CurrentUid] = [timestamp |-> now, user_id |-> CurrentUid]
      /\ (pc[r] = "wait_fresh" /\ pc'[r] # "wait_fresh"
            /\ output'[r].io /\ output'[r].status = 0)
         => /\ pc'[r] = "done"
            /\ result'[r].tag = "Ok"
            /\ result'[r].val =
                 [success |-> TRUE, output |-> output'[r].stdout, error |-> <<>>,
                  cached |-> FALSE, needs_password |-> FALSE]
      /\ (Checked(r) /\ FreshToken /\ request[r].password = None)
         => /\ pc'[r] = "wait_cached"
            /\ spawns'[r] =
                 <<[kind |-> "exec",
                    argv |-> <<"-n", request[r].command>> \o request[r].args,
                    stdin |-> <<>>]>>
      /\ (CachedReturned(r) /\ output'[r].io /\ output'[r].status = 0)
         => /\ pc'[r] = "done"
            /\ result'[r].tag = "Ok"
            /\ result'[r].val =
                 [success |-> TRUE, output |-> output'[r].stdout, error |-> <<>>,
                  cached |-> TRUE, needs_password |-> FALSE]
            /\ spawns'[r] = spawns[r]
            /\ Len(spawns[r]) = 1
  ]_vars

\* C1 witness: after a request that found no token was granted success, a
\* request without a password issued within 15 minutes of that return has
\* returned success on the cached path.
C1_Witness ==
  \E r \in Reqs :
    /\ lastGrant >= 0
    /\ inWindow[r]
    /\ pc[r] = "done"
    /\ request[r].password = None
    /\ result[r].tag = "Ok"
    /\ result[r].val.success
    /\ result[r].val.cached

\* C9 as stated: once a clear_sudo_cache that found the user cached has
\* completed and until a verification is accepted again (after its
\* clear_all), is_authenticated is false for every user,
\* and a request without a password issued in that interval is not on the
\* cached path and, when it has returned, has returned needs_password=true
\* without having executed the command.
C9_AsStated ==
  cleared = "yes" =>
    /\ \A u \in Users : ~is_authenticated(tokens, u, TimeoutMinutes, now)
    /\ \A r \in Reqs :
         afterClear[r]
           => /\ pc[r] # "wait_cached"
              /\ pc[r] = "done"
                   => /\ result[r].tag = "Ok"
                      /\ result[r].val.needs_password
                      /\ ~HasKind(spawns[r], "exec")

\* C9, amended: clear_sudo_cache empties the cache in its first step,
\* whatever the ages, and then runs sudo -k, which never establishes the
\* trust session; while the cache is empty is_authenticated is false for
\* every user and timeout and a request without a password that makes its
\* freshness check returns needs_password=true having spawned nothing; the
\* cache stops being empty only when a request whose password was accepted
\* (before or after the clear) inserts its token.
C9_ClearRevokes ==
  [][/\ (clearPc = "idle" /\ clearPc' = "wait_k") => DOMAIN tokens' = {}
     /\ (clearPc = "wait_k" /\ clearPc' = "idle")
          => (tokens' = tokens /\ (session' => session))
     /\ DOMAIN tokens' = {}
          => \A u \in Users, m \in Ttls : ~is_authenticated(tokens', u, m, now')
     /\ \A r \in Reqs :
          (Checked(r) /\ DOMAIN tokens = {} /\ request[r].password = None)
          => /\ pc'[r] = "done"
             /\ result'[r].tag = "Ok"
             /\ result'[r].val.needs_password
             /\ spawns'[r] = <<>>
     /\ (DOMAIN tokens = {} /\ DOMAIN tokens' # {})
          => \E r \in Reqs :
               /\ pc[r] = "auth" /\ pc'[r] = "wait_fresh"
               /\ verifyRes[r].tag = "Ok" /\ verifyRes[r].val
  ]_vars

\* C9 witness: a token was in the cache when clear_sudo_cache ran; the clear
\* has completed and a request without a password issued after it was
\* answered needs_password with the cache still empty.
C9_Witness ==
  /\ cleared = "yes"
  /\ DOMAIN tokens = {}
  /\ \E r \in Reqs :
       /\ afterClear[r]
       /\ pc[r] = "done"
       /\ result[r].val.needs_password
  /\ \E r \in Reqs :
       /\ ~afterClear[r]
       /\ pc[r] = "done"
       /\ inserts[r] = 1

\* C10: is_authenticated(user, ttl) returns true exactly when the cache
\* holds an entry for the user whose age, now minus its timestamp, is
\* strictly less than ttl minutes; it returns false for a user without an
\* entry; and it leaves the cache as it was.
C10_IsAuthenticated ==
  [][(call'.seq # call.seq /\ call'.op = "is_authenticated")
       => /\ call'.ret =
               (\E u \in DOMAIN tokens :
                  /\ u = call'.user
                  /\ now - tokens[u].timestamp < call'.ttl * 60)
          /\ (call'.user \notin DOMAIN tokens => ~call'.ret)
          /\ tokens' = tokens
  ]_vars

\* C10 witness: is_authenticated has just returned false for an entry whose
\* age equals the timeout, and the entry is still in the cache.
C10_Witness ==
  /\ call.op = "is_authenticated"
  /\ call.ttl = 15
  /\ ~call.ret
  /\ call.user \in DOMAIN tokens
  /\ now - tokens[call.user].timestamp = 900

\* C11: authenticate(U) leaves the cache with one entry for U stamped with
\* the instant of the call, whether or not U had an entry, and with the
\* entries of all other users as they were; right after the call
\* is_authenticated(U, ttl) is true for every ttl > 0; no other call moves
\* the timestamp of U's entry, and is_authenticated(U, ttl) is false in every
\* state in which ttl minutes or more have passed since that timestamp.
C11_Authenticate ==
  [][/\ (call'.seq # call.seq /\ call'.op = "authenticate")
          => /\ DOMAIN tokens' = DOMAIN tokens \cup {call'.user}
             /\ tokens'[call'.user] =
                  [timestamp |-> now, user_id |-> call'.user]
             /\ \A v \in DOMAIN tokens \ {call'.user} : tokens'[v] = tokens[v]
             /\ \A m \in Ttls :
                  m > 0 => is_authenticated(tokens', call'.user, m, now')
     /\ \A u \in Users :
          (~(call'.seq # call.seq /\ call'.op = "authenticate" /\ call'.user = u)
             /\ u \in DOMAIN tokens')
          => (u \in DOMAIN tokens /\ tokens'[u] = tokens[u])
     /\ \A u \in DOMAIN tokens', m \in Ttls :
          now' - tokens'[u].timestamp >= m * 60
            => ~is_authenticated(tokens', u, m, now')
  ]_vars

\* C11 witness: authenticate has just overwritten nothing of the other user:
\* both users are cached, the caller's entry is stamped now and the other,
\* older, entry has reached the 15 minutes.
C11_Witness ==
  /\ call.op = "authenticate"
  /\ DOMAIN tokens = Users
  /\ tokens[call.user].timestamp = now
  /\ \E v \in Users \ {call.user} : now - tokens[v].timestamp = 900

\* C12: clear_expired(ttl) keeps exactly the entries whose age is less than
\* ttl minutes, each with its key and timestamp as they were, and removes the
\* others; an entry is kept exactly when is_authenticated reports it fresh for
\* that ttl at that instant; the cache it leaves holds nothing that a second
\* clear_expired(ttl) at the same instant would remove, which changes nothing.
C12_ClearExpired ==
  [][/\ (call'.seq # call.seq /\ call'.op = "clear_expired")
          => /\ DOMAIN tokens' =
                  {u \in DOMAIN tokens : now - tokens[u].timestamp < call'.ttl * 60}
             /\ \A u \in DOMAIN tokens' : tokens'[u] = tokens[u]
             /\ \A u \in Users :
                  (u \in DOMAIN tokens') = is_authenticated(tokens, u, call'.ttl, now)
             /\ \A u \in DOMAIN tokens' :
                  now' - tokens'[u].timestamp < call'.ttl * 60
             /\ clear_expired(tokens', call'.ttl, now') = tokens'
  ]_vars

\* C12 witness: clear_expired(15) has just removed an entry whose age equals
\* the 15 minutes and kept a younger one.
C12_Witness ==
  /\ call.op = "clear_expired"
  /\ call.ttl = 15
  /\ Cardinality(DOMAIN tokens) = 1
  /\ \E u \in DOMAIN tokens : now - tokens[u].timestamp = 450
  /\ now = 900


\* C13: under every interleaving of is_authenticated, authenticate,
\* clear_expired and clear_all calls of concurrent tasks, at most one task
\* holds the lock; a call goes lock, body, unlock, once each, and returns with
\* the lock released; the lock is taken only when no task, the caller
\* included, holds it; the map changes only in the body of the one holder;
\* whenever the lock is free the cache is the cache of the sequential
\* execution of the calls in the order they returned, and is_authenticated
\* returns what it returns in that execution; and whenever a call is in
\* progress, the holder of the lock can take its next step or the lock is
\* free for a waiting caller.
C13_Linearizable ==
  [][/\ Cardinality(holders') <= 1
     /\ \A t \in Reqs :
          /\ (t \in holders') = (opPc'[t] \in {"held", "unlock"})
          /\ (t \notin holders /\ t \in holders')
               => (opPc[t] = "lock" /\ holders = {})
          /\ opPc'[t] # opPc[t]
               => <<opPc[t], opPc'[t]>> \in
                    {<<"idle", "lock">>, <<"lock", "held">>, <<"held", "unlock">>,
                     <<"unlock", "idle">>, <<"idle", "blocked">>,
                     <<"blocked", "idle">>}
          /\ (opPc[t] = "unlock" /\ opPc'[t] = "idle")
               => /\ t \notin holders'
                  /\ cur[t].ret =
                       (/\ cur[t].op = "is_authenticated"
                        /\ cur[t].user \in DOMAIN lin
                        /\ cur[t].at - lin[cur[t].user].timestamp < cur[t].ttl * 60)
     /\ tokens' # tokens
          => \E t \in Reqs :
               holders = {t} /\ opPc[t] = "held" /\ opPc'[t] = "unlock"
     /\ holders' = {} => tokens' = lin'
     /\ (\E t \in Reqs : opPc'[t] \in {"lock", "held", "unlock"})
          => \/ \E t \in holders' : opPc'[t] \in {"held", "unlock"}
             \/ holders' = {} /\ \E t \in Reqs : opPc'[t] = "lock"
  ]_vars

\* C13 witness: one task is in its critical section while the other waits
\* for the lock with a call that does not commute with it, the cache holding
\* tokens of both users.
C13_Witness ==
  /\ opPc["r1"] = "unlock"
  /\ cur["r1"].op = "authenticate"
  /\ opPc["r2"] = "lock"
  /\ cur["r2"].op = "clear_all"
  /\ DOMAIN tokens = Users
  /\ lin # tokens

\* C14: a task that waits for a process it spawned does not hold the lock of
\* the cache; while it waits, every other task that is in a call of the
\* cache can take its next step, or waits for the lock while the lock is free
\* or held by a task that is not blocked and can take its next step.
C14_NoLockAcrossSpawn ==
  \A t \in Reqs :
    opPc[t] = "blocked"
      => /\ t \notin holders
         /\ \A q \in Reqs \ {t} :
              /\ opPc[q] \in {"held", "unlock"} => holders = {q}
              /\ opPc[q] = "lock"
                   => \/ holders = {}
                      \/ \E h \in Reqs \ {t} :
                           holders = {h} /\ opPc[h] \in {"held", "unlock"}

\* C14 witness: while one task waits for its process, the other has taken
\* the lock, inserted a token and is about to release the lock.
C14_Witness ==
  /\ opPc["r1"] = "blocked"
  /\ opPc["r2"] = "unlock"
  /\ cur["r2"].op = "authenticate"
  /\ holders = {"r2"}
  /\ cur["r2"].user \in DOMAIN tokens
  /\ tokens[cur["r2"].user].timestamp = now


\* C15 as stated: whatever the tool's exit status, stdout and stderr,
\* direct_privilege_escalation returns the response execute_sudo_command
\* returns with use_cached=false for the same outcome of the tool (success
\* with no error on a zero exit, failure with error = stderr on a non-zero
\* exit, needs_password=false).
C15_AsStated ==
  direct.pc = "done"
    => /\ direct.res = execute_sudo_command(direct.out, FALSE)
       /\ (direct.out.io /\ direct.out.status = 0)
            => direct.res.val =
                 [success |-> TRUE, output |-> direct.out.stdout, error |-> <<>>,
                  cached |-> FALSE, needs_password |-> FALSE]
       /\ (direct.out.io /\ direct.out.status # 0)
            => direct.res.val =
                 [success |-> FALSE, output |-> direct.out.stdout,
                  error |-> <<direct.out.stderr>>,
                  cached |-> FALSE, needs_password |-> FALSE]


\* The response res classifies the exit of the tool out, run with or without
\* -n, as C16 says.
C16_Classified(out, cached, res) ==
  /\ res.needs_password =
       (out.status # 0 /\ cached /\ Contains(out.stderr, "no password entry"))
  /\ res.needs_password
       => /\ ~res.success
          /\ res.error # <<out.stderr>>
          /\ res.error = <<<<"Authentication required">>>>
  /\ (out.status # 0 /\ ~res.needs_password)
       => /\ ~res.success
          /\ res.error = <<out.stderr>>
  /\ out.status = 0
       => /\ res.success
          /\ res.output = out.stdout
          /\ res.error = <<>>
          /\ ~res.needs_password
          /\ res.cached = cached

\* C16: execute_sudo_command returns needs_password=true exactly when the
\* tool exited non-zero, the command was run with use_cached=true and stderr
\* carries "no password entry", and then success=false and error is not the
\* tool's stderr; any other non-zero exit, the signature with
\* use_cached=false included, gives success=false, error=stderr,
\* needs_password=false; a zero exit gives success=true, output=stdout, no
\* error, needs_password=false and cached=use_cached.
C16_ExecutorClassification ==
  [][\A r \in Reqs :
      /\ (CachedReturned(r) /\ output'[r].io)
           => /\ cachedRes'[r].tag = "Ok"
              /\ C16_Classified(output'[r], TRUE, cachedRes'[r].val)
      /\ (pc[r] = "wait_fresh" /\ pc'[r] # "wait_fresh" /\ output'[r].io)
           => /\ result'[r].tag = "Ok"
              /\ C16_Classified(output'[r], FALSE, result'[r].val)
  ]_vars

\* C16 witness: one request's execution without -n failed with the signature
\* on stderr and returned it as the error, while the other's execution with
\* -n failed with the signature and was classified needs_password.
C16_Witness ==
  /\ \E r \in Reqs :
       /\ pc[r] = "done"
       /\ verifyRes[r].tag = "Ok" /\ verifyRes[r].val
       /\ output[r].io /\ output[r].status # 0
       /\ Contains(output[r].stderr, "no password entry")
       /\ result[r].tag = "Ok"
       /\ ~result[r].val.needs_password
       /\ result[r].val.error = <<output[r].stderr>>
  /\ \E r \in Reqs :
       /\ cachedRes[r].tag = "Ok"
       /\ cachedRes[r].val.needs_password
       /\ verifyRes[r].tag = "Pending"


\* C17 as stated: when the cached execution of a request reported
\* needs_password and the request returns without an accepted verification
\* (no password, password rejected, or the verifier could not be run), the
\* token of the current user is no longer trusted when it returns:
\* is_authenticated(user, 15) is false. (Stated for a request that runs
\* alone, so that no other request can have put a token back, and with the
\* tool's trust session really gone.)
C17_AsStated ==
  [][\A r \in Reqs :
      (/\ pc[r] # "done" /\ pc'[r] = "done"
       /\ cachedRes'[r].tag = "Ok" /\ cachedRes'[r].val.needs_password
       /\ ~(verifyRes'[r].tag = "Ok" /\ verifyRes'[r].val)
       /\ ~session
       /\ \A q \in Reqs \ {r} : pc[q] = "idle")
      => ~is_authenticated(tokens', CurrentUid, TimeoutMinutes, now')
  ]_vars


\* How far a request has come.
C18_Rank(p) ==
  CASE p = "check" -> 1
    [] p = "wait_cached" -> 2
    [] p = "wait_verify" -> 3
    [] p = "auth" -> 4
    [] p = "wait_fresh" -> 5
    [] OTHER -> 6

\* The place of a process in the order cached execution, verification,
\* fresh execution.
C18_Order(proc) ==
  IF proc.kind = "verify" THEN 2
  ELSE IF proc.argv[1] = "-n" THEN 1 ELSE 3

\* C18: every step of a request takes it strictly forward (check, cached
\* execution, verification, token, fresh execution, done), so no position is
\* visited twice; it spawns at most one cached execution, one verification and
\* one fresh execution, in that order; an execution that could not be spawned
\* or read ends the request at once with an error, nothing more being
\* spawned; and a request whose processes all return does return.
C18_Terminates ==
  /\ [][\A r \in Reqs :
         /\ (pc'[r] # pc[r] /\ pc[r] \notin {"idle", "done"})
              => C18_Rank(pc'[r]) > C18_Rank(pc[r])
         /\ (pc[r] \notin {"idle", "done"} /\ spawns'[r] # spawns[r])
              => pc'[r] # pc[r]
         /\ Len(spawns'[r]) <= 3
         /\ \A i, j \in DOMAIN spawns'[r] :
              i < j => C18_Order(spawns'[r][i]) < C18_Order(spawns'[r][j])
         /\ ((CachedReturned(r) \/ (pc[r] = "wait_fresh" /\ pc'[r] # "wait_fresh"))
               /\ ~output'[r].io)
              => /\ pc'[r] = "done"
                 /\ result'[r].tag = "Err"
                 /\ spawns'[r] = spawns[r]
         /\ (pc[r] = "done" /\ pc'[r] = "done") => spawns'[r] = spawns[r]
     ]_vars
  /\ \A r \in Reqs : (pc[r] \notin {"idle", "done"}) ~> (pc[r] = "done")

\* C18 witness: a request that went through all three processes has
\* returned, and another has returned the error of a cached execution that
\* could not be spawned.
C18_Witness ==
  /\ \E r \in Reqs :
       /\ pc[r] = "done"
       /\ Len(spawns[r]) = 3
       /\ result[r].tag = "Ok"
  /\ \E r \in Reqs :
       /\ pc[r] = "done"
       /\ Len(spawns[r]) = 1
       /\ spawns[r][1].argv[1] = "-n"
       /\ result[r].tag = "Err"


\* C19: under every interleaving of fast_sudo and clear_sudo_cache requests,
\* every entry of the cache is stored under its own user_id; an entry is put
\* into the cache or restamped only by the step of a request that directly
\* follows the acceptance of that request's password, once per request, and
\* stamped at that step; an entry leaves the cache only by clear_all or by a
\* sweep that finds it 15 minutes old, and is back only by such an insertion;
\* the timestamp of an entry that stays never moves backwards.
C19_TokenProvenance ==
  [][/\ \A u \in DOMAIN tokens' : tokens'[u].user_id = u
     /\ \A u \in DOMAIN tokens' :
          (u \notin DOMAIN tokens \/ tokens'[u] # tokens[u])
          => \E r \in Reqs :
               /\ pc[r] = "auth" /\ pc'[r] = "wait_fresh"
               /\ verifyRes[r].tag = "Ok" /\ verifyRes[r].val
               /\ inserts[r] = 0 /\ inserts'[r] = 1
               /\ spawns[r][Len(spawns[r])].kind = "verify"
               /\ u = CurrentUid
               /\ tokens'[u].timestamp = now
     /\ \A r \in Reqs :
          /\ (inserts'[r] # inserts[r] /\ inserts'[r] # 0)
               => /\ pc[r] = "auth"
                  /\ CurrentUid \in DOMAIN tokens'
                  /\ tokens'[CurrentUid] =
                       [timestamp |-> now, user_id |-> CurrentUid]
          /\ (pc[r] # "auth" /\ pc'[r] = "auth")
               => /\ VerifyReturned(r)
                  /\ verifyRes'[r].tag = "Ok" /\ verifyRes'[r].val
          /\ (pc[r] = "auth" /\ pc'[r] # "auth")
               => (CurrentUid \in DOMAIN tokens' /\ inserts'[r] = 1)
     /\ \A u \in DOMAIN tokens :
          /\ u \notin DOMAIN tokens'
               => \/ clearPc = "idle" /\ clearPc' = "wait_k"
                  \/ /\ \E r \in Reqs : pc[r] \in {"idle", "done"} /\ pc'[r] = "check"
                     /\ now - tokens[u].timestamp >= 15 * 60
          /\ u \in DOMAIN tokens'
               => tokens'[u].timestamp >= tokens[u].timestamp
  ]_vars

\* C19 witness: two concurrent requests of the user have both had their
\* passwords accepted and inserted their tokens, the second later than the
\* first, after a clear_sudo_cache had emptied the cache in between.
C19_Witness ==
  /\ \A r \in Reqs : inserts[r] = 1 /\ pc[r] = "wait_fresh"
  /\ clearPc = "wait_k"
  /\ CurrentUid \in DOMAIN tokens
  /\ tokens[CurrentUid] = [timestamp |-> 450, user_id |-> CurrentUid]
  /\ now = 450


\* The process the request has just spawned, when it has just spawned one.
C20_Spawned(r) == spawns'[r][Len(spawns'[r])]

\* C20: a request spawns the command without -n only in the step after its
\* own verifier accepted its password, and with -n only as the step of its
\* own freshness check that found a token of the user younger than 15
\* minutes; a request whose cached execution succeeded, failed for a reason
\* of the command or could not be run has returned and spawns nothing more;
\* the command is run at most twice, the second time only after the first,
\* with -n, reported needs_password; and a response with cached=true is the
\* response of the request's cached execution.
C20_OneTrustPath ==
  [][\A r \in Reqs :
      /\ (Len(spawns'[r]) = Len(spawns[r]) + 1 /\ C20_Spawned(r).kind = "exec")
           => IF C20_Spawned(r).argv[1] = "-n"
                THEN /\ Checked(r)
                     /\ spawns[r] = <<>>
                     /\ CurrentUid \in DOMAIN tokens
                     /\ now - tokens[CurrentUid].timestamp < 15 * 60
                ELSE /\ pc[r] = "auth"
                     /\ verifyRes[r].tag = "Ok" /\ verifyRes[r].val
                     /\ spawns[r][Len(spawns[r])].kind = "verify"
                     /\ spawns[r][Len(spawns[r])].stdin[1] = request[r].password[1]
      /\ (cachedRes'[r].tag = "Err"
            \/ (cachedRes'[r].tag = "Ok"
                  /\ (cachedRes'[r].val.success \/ ~cachedRes'[r].val.needs_password)))
           => /\ pc'[r] = "done"
              /\ result'[r] = cachedRes'[r]
              /\ Len(spawns'[r]) = 1
      /\ \A i, j \in DOMAIN spawns'[r] :
           (i < j /\ spawns'[r][i].kind = "exec" /\ spawns'[r][j].kind = "exec")
           => /\ i = 1 /\ j = 3
              /\ spawns'[r][1].argv[1] = "-n"
              /\ spawns'[r][3].argv[1] # "-n"
              /\ cachedRes'[r].tag = "Ok" /\ cachedRes'[r].val.needs_password
      /\ (result'[r].tag = "Ok" /\ result'[r].val.cached)
           => /\ result'[r] = cachedRes'[r]
              /\ Len(spawns'[r]) = 1
              /\ spawns'[r][1].argv[1] = "-n"
  ]_vars

\* C20 witness: one request has returned cached=true with the failure of its
\* cached execution, and the other, whose cached execution reported
\* needs_password, has run the command again after its password was accepted.
C20_Witness ==
  /\ \E r \in Reqs :
       /\ pc[r] = "done"
       /\ result[r].tag = "Ok"
       /\ result[r].val.cached
       /\ ~result[r].val.success
  /\ \E r \in Reqs :
       /\ pc[r] = "done"
       /\ Len(spawns[r]) = 3
       /\ cachedRes[r].val.needs_password
       /\ result[r].tag = "Ok"
       /\ result[r].val.success
       /\ ~result[r].val.cached


====
